---- MODULE Spec2Model ----
(***************************************************************************)
(* Model of pkg/assembler/backends/ent/backend/helpers.go: the global-ID   *)
(* codec (toGlobalID / fromGlobalID), optionalPredicate, chunk and         *)
(* getIDfromNode.  Every helper is a pure function; the state machine      *)
(* records the last call (op), its arguments (arg) and what it produced    *)
(* (ret).  Strings are sequences of characters.                            *)
(***************************************************************************)
EXTENDS Integers, Sequences, FiniteSets, TLC

VARIABLES op, arg, ret

vars == <<op, arg, ret>>

\* ---------------------------------------------------------------- bounds
MaxLen == 3          \* longest string handed to the codec
MaxSeqLen == 4       \* longest collection handed to chunk
MaxSize == 3         \* largest chunk size
MaxNamespaces == 2   \* longest Namespaces list of a Package / Source
MaxNames == 2        \* longest Names list of a namespace
MaxVersions == 1     \* longest Versions list of a package name
MaxVulnIDs == 2      \* longest VulnerabilityIDs list

\* ------------------------------------------------------------ strings
Sep == ":"

Chars == {"a", "b", Sep}

SeqsUpTo(S, n) == UNION {[1..m -> S] : m \in 0..n}

Strings == SeqsUpTo(Chars, MaxLen)

HasSep(s) == \E i \in 1..Len(s) : s[i] = Sep

\* strings.Index(s, ":"), 1-based; 0 when absent
Index(s) == IF HasSep(s) THEN CHOOSE i \in 1..Len(s) : s[i] = Sep /\ \A j \in 1..(i-1) : s[j] # Sep ELSE 0

\* strings.Split(s, ":"): all the pieces between separators, at least one piece
RECURSIVE Split(_)
Split(s) == IF Index(s) = 0 THEN <<s>> ELSE <<SubSeq(s, 1, Index(s) - 1)>> \o Split(SubSeq(s, Index(s) + 1, Len(s)))

\* strings.Join(elems, ":")
RECURSIVE Join(_)
Join(elems) == IF Len(elems) = 0 THEN <<>> ELSE IF Len(elems) = 1 THEN elems[1] ELSE elems[1] \o <<Sep>> \o Join(Tail(elems))

\* ------------------------------------------------------- global-ID codec
globalID(nodeType, id) == [nodeType |-> nodeType, id |-> id]

toGlobalIDNoSeparator(nodeType, id) == nodeType \o id

toGlobalID(nodeType, id) == Join(<<nodeType, id>>)

fromGlobalIDKeepsType(gID) == LET idSplit == Split(gID) IN globalID(idSplit[1], IF Len(idSplit) = 2 THEN idSplit[2] ELSE idSplit[1])

fromGlobalID(gID) ==
  LET idSplit == Split(gID)
  IN  IF Len(idSplit) = 2
      THEN globalID(idSplit[1], idSplit[2])
      ELSE globalID(<<>>, idSplit[1])

\* ----------------------------------------------------- optionalPredicate
NilPtr == [isNil |-> TRUE]

Ptr(x) == [isNil |-> FALSE, v |-> x]

Values == {"v1", "v2"}

Builders == {"FieldEQ", "FieldNEQ"}

\* the predicate the builder fn returns for s
fn(b, s) == [kind |-> b, value |-> s]

NoOpSelector == [kind |-> "noop"]

Selectors == SeqsUpTo({fn(b, s) : b \in Builders, s \in Values}, 1)

\* applying a predicate to a selector: the no-op has an empty body, a
\* built predicate adds its condition
ApplyPredicate(p, s) == IF p.kind = "noop" THEN s ELSE Append(s, p)

optionalPredicateAlwaysBuilds(value, b) == IF value.isNil THEN [pred |-> fn(b, "v1"), calls |-> <<"v1">>] ELSE [pred |-> fn(b, value.v), calls |-> <<value.v>>]

\* pred is the returned predicate, calls the arguments fn was invoked with
optionalPredicate(value, b) ==
  IF value.isNil
  THEN [pred |-> NoOpSelector, calls |-> <<>>]
  ELSE [pred |-> fn(b, value.v), calls |-> <<value.v>>]

\* ------------------------------------------------------------------ chunk
Elems == {1, 2}

Collections == SeqsUpTo(Elems, MaxSeqLen)

Sizes == (-1)..MaxSize

Panic == [status |-> "panic"]

chunkDropsRemainder(collection, size) == IF size <= 0 THEN Panic ELSE [status |-> "returned", result |-> [i \in 1..(Len(collection) \div size) |-> SubSeq(collection, (i-1)*size + 1, i*size)]]

chunk(collection, size) ==
  IF size <= 0 THEN Panic
  ELSE LET chunksNum == (Len(collection) \div size)
                          + (IF Len(collection) % size # 0 THEN 1 ELSE 0)
           last(i) == IF (i + 1) * size > Len(collection)
                      THEN Len(collection) ELSE (i + 1) * size
       IN  [status |-> "returned",
            result |-> [k \in 1..chunksNum |->
                          SubSeq(collection, (k-1)*size + 1, last(k-1))]]

\* ------------------------------------------------------------ model.Node
FlatKinds == {"Artifact", "Builder", "License", "CertifyBad", "CertifyGood",
              "CertifyLegal", "CertifyScorecard", "CertifyVEXStatement",
              "CertifyVuln", "HashEqual", "HasMetadata", "HasSbom", "HasSlsa",
              "HasSourceAt", "IsDependency", "IsOccurrence", "PkgEqual",
              "PointOfContact", "VulnEqual", "VulnerabilityMetadata"}

KnownKinds == FlatKinds \cup {"Package", "Source", "Vulnerability"}

\* a node whose concrete type no case of the switch names, and the nil interface
UnknownKinds == {"Unregistered", "nil"}

\* every entity of a node tree has an identifier of its own
PackageNamespaces(shape) ==
  [i \in 1..Len(shape) |->
     [ID |-> <<"namespace", i>>,
      Names |-> [j \in 1..Len(shape[i]) |->
                   [ID |-> <<"name", i, j>>,
                    Versions |-> [k \in 1..shape[i][j] |->
                                    [ID |-> <<"version", i, j, k>>]]]]]]

SourceNamespaces(shape) ==
  [i \in 1..Len(shape) |->
     [ID |-> <<"namespace", i>>,
      Names |-> [j \in 1..shape[i] |-> [ID |-> <<"name", i, j>>]]]]

VulnerabilityIDs(n) == [i \in 1..n |-> [ID |-> <<"vulnerabilityID", i>>]]

Node(kind, isNil, namespaces, vulnIDs) ==
  [kind |-> kind, isNil |-> isNil, ID |-> <<"node", kind>>,
   Namespaces |-> namespaces, VulnerabilityIDs |-> vulnIDs]

PackageShapes == SeqsUpTo(SeqsUpTo(0..MaxVersions, MaxNames), MaxNamespaces)

SourceShapes == SeqsUpTo(0..MaxNames, MaxNamespaces)

Nodes ==
  {Node("Package", FALSE, PackageNamespaces(sh), <<>>) : sh \in PackageShapes}
  \cup {Node("Source", FALSE, SourceNamespaces(sh), <<>>) : sh \in SourceShapes}
  \cup {Node("Vulnerability", FALSE, <<>>, VulnerabilityIDs(n)) : n \in 0..MaxVulnIDs}
  \cup {Node(k, FALSE, <<>>, <<>>) : k \in FlatKinds}
  \cup {Node(k, TRUE, <<>>, <<>>) : k \in KnownKinds}
  \cup {Node(k, k = "nil", <<>>, <<>>) : k \in UnknownKinds}

\* ---------------------------------------------------------- getIDfromNode
NilError == <<>>

Errorf(v) == <<"unknown type", v>>

Return(id, err) == [status |-> "returned", id |-> id, err |-> err]

\* v.ID, v.VulnerabilityIDs: a field read through a nil pointer panics
Field(v, id) == IF v.isNil THEN Panic ELSE Return(id, NilError)

packageIDNamespaceOnly(v) ==
  IF ~v.isNil /\ Len(v.Namespaces) > 0
  THEN Return(v.Namespaces[1].ID, NilError)
  ELSE Field(v, v.ID)

\* case *model.Package
packageID(v) ==
  IF ~v.isNil /\ Len(v.Namespaces) > 0
     /\ Len(v.Namespaces[1].Names) > 0
     /\ Len(v.Namespaces[1].Names[1].Versions) > 0
  THEN Return(v.Namespaces[1].Names[1].Versions[1].ID, NilError)
  ELSE IF ~v.isNil /\ Len(v.Namespaces) > 0
          /\ Len(v.Namespaces[1].Names) > 0
  THEN Return(v.Namespaces[1].Names[1].ID, NilError)
  ELSE IF ~v.isNil /\ Len(v.Namespaces) > 0
  THEN Return(v.Namespaces[1].ID, NilError)
  ELSE Field(v, v.ID)

\* case *model.Source
sourceID(v) ==
  IF ~v.isNil /\ Len(v.Namespaces) > 0
     /\ Len(v.Namespaces[1].Names) > 0
  THEN Return(v.Namespaces[1].Names[1].ID, NilError)
  ELSE IF ~v.isNil /\ Len(v.Namespaces) > 0
  THEN Return(v.Namespaces[1].ID, NilError)
  ELSE Field(v, v.ID)

vulnerabilityIDLast(v) ==
  IF v.isNil THEN Panic
  ELSE IF Len(v.VulnerabilityIDs) > 0
  THEN Return(v.VulnerabilityIDs[Len(v.VulnerabilityIDs)].ID, NilError)
  ELSE Return(v.ID, NilError)

\* case *model.Vulnerability
vulnerabilityID(v) ==
  IF v.isNil THEN Panic
  ELSE IF Len(v.VulnerabilityIDs) > 0
  THEN Return(v.VulnerabilityIDs[1].ID, NilError)
  ELSE Return(v.ID, NilError)

getIDfromNodeDefaultID(node) ==
  IF node.kind = "Package" THEN packageID(node)
  ELSE IF node.kind = "Source" THEN sourceID(node)
  ELSE IF node.kind = "Vulnerability" THEN vulnerabilityID(node)
  ELSE Field(node, node.ID)

getIDfromNode(node) ==
  IF node.kind = "Package" THEN packageID(node)
  ELSE IF node.kind = "Source" THEN sourceID(node)
  ELSE IF node.kind = "Vulnerability" THEN vulnerabilityID(node)
  ELSE IF node.kind \in FlatKinds THEN Field(node, node.ID)
  ELSE Return(<<>>, Errorf(node))

\* ---------------------------------------------------------------- actions
\* the helpers keep no state between calls: a call starts from the idle
\* state and Done discards its frame
Idle == op = "idle"

Init == op = "idle" /\ arg = <<>> /\ ret = <<>>

CallToGlobalID ==
  /\ Idle
  /\ \E nodeType \in Strings, id \in Strings :
     /\ op' = "toGlobalID"
     /\ arg' = [nodeType |-> nodeType, id |-> id]
     /\ ret' = toGlobalID(nodeType, id)

\* decode a global ID that toGlobalID produced; arg keeps the encoded pair
CallFromGlobalIDOfEncoded ==
  /\ op = "toGlobalID"
  /\ op' = "fromGlobalID(toGlobalID)"
  /\ arg' = arg
  /\ ret' = fromGlobalID(ret)

CallFromGlobalID ==
  /\ Idle
  /\ \E gID \in Strings :
     /\ op' = "fromGlobalID"
     /\ arg' = gID
     /\ ret' = fromGlobalID(gID)

CallOptionalPredicate ==
  /\ Idle
  /\ \E value \in {NilPtr} \cup {Ptr(x) : x \in Values}, b \in Builders :
     /\ op' = "optionalPredicate"
     /\ arg' = [value |-> value, fn |-> b]
     /\ ret' = optionalPredicate(value, b)

CallChunk ==
  /\ Idle
  /\ \E collection \in Collections, size \in Sizes :
     /\ op' = "chunk"
     /\ arg' = [collection |-> collection, size |-> size]
     /\ ret' = chunk(collection, size)

CallGetIDfromNode ==
  /\ Idle
  /\ \E node \in Nodes :
     /\ op' = "getIDfromNode"
     /\ arg' = node
     /\ ret' = getIDfromNode(node)

Done ==
  /\ ~Idle
  /\ op' = "idle"
  /\ arg' = <<>>
  /\ ret' = <<>>

Next ==
  \/ CallToGlobalID
  \/ CallFromGlobalIDOfEncoded
  \/ CallFromGlobalID
  \/ CallOptionalPredicate
  \/ CallChunk
  \/ CallGetIDfromNode
  \/ Done

Spec == Init /\ [][Next]_vars

\* ----------------------------------------------------------------- claims

\* C1: decoding what toGlobalID encoded gives back exactly the pair
\* (nodeType, id) whenever neither contains the separator, the empty
\* nodeType and the empty id included.
C1_RoundTrip ==
  (op = "fromGlobalID(toGlobalID)" /\ ~HasSep(arg.nodeType) /\ ~HasSep(arg.id))
     => ret = globalID(arg.nodeType, arg.id)

C1_Witness ==
  /\ op = "fromGlobalID(toGlobalID)"
  /\ arg = globalID(<<>>, <<"a", "b">>)
  /\ ret = globalID(<<>>, <<"a", "b">>)

\* C2: for every input that contains the separator, fromGlobalID returns the
\* text before the first separator as nodeType and all the text after the
\* first separator as id.
C2_SplitsOnFirstSeparator ==
  (op = "fromGlobalID" /\ HasSep(arg))
     => ret = globalID(SubSeq(arg, 1, Index(arg) - 1),
                       SubSeq(arg, Index(arg) + 1, Len(arg)))

\* C3: fromGlobalID returns a (nodeType, id) pair for every string, and for
\* a string without the separator the pair is the empty nodeType and the
\* whole input as id.
C3_TotalAndDegrades ==
  op = "fromGlobalID"
     => /\ ret \in [nodeType : Strings, id : Strings]
        /\ ~HasSep(arg) => ret = globalID(<<>>, arg)

C3_Witness ==
  /\ op = "fromGlobalID"
  /\ arg = <<"a", "b">>
  /\ ret = globalID(<<>>, <<"a", "b">>)

C3_WitnessEmpty == op = "fromGlobalID" /\ arg = <<>> /\ ret = globalID(<<>>, <<>>)

RECURSIVE Flatten(_)
Flatten(chunks) == IF chunks = <<>> THEN <<>> ELSE Head(chunks) \o Flatten(Tail(chunks))

\* C5: for size > 0 chunk returns sub-sequences whose concatenation in
\* order is the input, each but the last of exactly size elements, the last
\* of 1..size elements; the empty input gives the empty list.
C5_ChunkPartitions ==
  (op = "chunk" /\ arg.size > 0)
     => /\ ret.status = "returned"
        /\ Flatten(ret.result) = arg.collection
        /\ \A i \in 1..(Len(ret.result) - 1) : Len(ret.result[i]) = arg.size
        /\ \A i \in 1..Len(ret.result) : Len(ret.result[i]) \in 1..arg.size
        /\ arg.collection = <<>> => ret.result = <<>>

C5_Witness ==
  /\ op = "chunk"
  /\ arg = [collection |-> <<1, 2, 1>>, size |-> 2]
  /\ ret.result = << <<1, 2>>, <<1>> >>

C7_FirstVulnerabilityID ==
  (op = "getIDfromNode" /\ arg.kind = "Vulnerability" /\ ~arg.isNil)
     => ret = Return(IF Len(arg.VulnerabilityIDs) > 0
                     THEN arg.VulnerabilityIDs[1].ID ELSE arg.ID, NilError)

C7_Witness ==
  /\ op = "getIDfromNode"
  /\ arg.kind = "Vulnerability"
  /\ Len(arg.VulnerabilityIDs) = 2
  /\ ret = Return(<<"vulnerabilityID", 1>>, NilError)

\* C8: a node of no known variant (the nil interface included) gets a
\* non-nil error carrying the node, without a panic and without an
\* identifier; whatever getIDfromNode returns for a node of a known variant
\* has a nil error.
C8_UnknownVariantErrors ==
  op = "getIDfromNode"
     => IF arg.kind \in KnownKinds
        THEN ret.status = "returned" => ret.err = NilError
        ELSE ret = Return(<<>>, Errorf(arg))

C8_Witness ==
  /\ op = "getIDfromNode"
  /\ arg.kind = "nil"
  /\ ret.status = "returned"
  /\ ret.err = <<"unknown type", arg>>

C8_WitnessUnregistered ==
  /\ op = "getIDfromNode"
  /\ arg.kind = "Unregistered"
  /\ ret.status = "returned"
  /\ ret.err # NilError

\* C9: with a nil value optionalPredicate does not invoke fn and returns a
\* predicate that leaves every selector unchanged; with a value it invokes
\* fn once, with the pointed-to value, and returns what fn returned.
C9_OptionalPredicate ==
  op = "optionalPredicate"
     => IF arg.value.isNil
        THEN /\ ret.calls = <<>>
             /\ \A s \in Selectors : ApplyPredicate(ret.pred, s) = s
        ELSE /\ ret.calls = <<arg.value.v>>
             /\ ret.pred = [kind |-> arg.fn, value |-> arg.value.v]

C9_Witness ==
  /\ op = "optionalPredicate"
  /\ arg.value.isNil
  /\ ret.calls = <<>>
  /\ ret.pred = NoOpSelector

C9_WitnessPresent ==
  /\ op = "optionalPredicate"
  /\ arg = [value |-> Ptr("v2"), fn |-> "FieldEQ"]
  /\ ret.calls = <<"v2">>

\* C10: a nil *Package or nil *Source never makes getIDfromNode panic: it
\* returns an (id, error) pair.
C10_NilHierarchicalNeverPanics ==
  (op = "getIDfromNode" /\ arg.kind \in {"Package", "Source"} /\ arg.isNil)
     => ret.status = "returned"

====
